---- MODULE Spec2Model ----
(***************************************************************************)
(* A model of estimator/util.py: the local_minimum search context, the     *)
(* binary_search and binary_search_robust drivers built on it, and the     *)
(* batch_estimate harness; and of CodedBKW.b and CodedBKW.__call__ of      *)
(* estimator/lwe_bkw.py, which use binary_search.                          *)
(*                                                                         *)
(* Python's None is the empty set and a present value v is {v}.  A result  *)
(* is a record: a feasible result carries its scalar in rop, and the       *)
(* infeasible result is Python's False, which orders as the integer 0.     *)
(***************************************************************************)
EXTENDS Integers, Sequences, FiniteSets, TLC

VARIABLES
    pc,       \* where the caller of the search context (or the driver) stands
    args,     \* the arguments local_minimum was constructed with
    it,       \* the local_minimum instance
    xs,       \* the candidates __next__ has returned, in order
    ys,       \* the results given to update, in order
    warned,   \* the boundary advisory has been logged
    err,      \* the error raised, "none" if none
    call,     \* the driver call: function, start, stop, step, ...
    f,        \* the cost function of the driver call, as a table
    calls,    \* the points the driver has invoked f on, in order
    ret,      \* the value the driver returned
    rb,       \* the locals p, y, lower, upper, cst of binary_search_robust
    batch,    \* the arguments of the batch_estimate call
    tasks,    \* batch_estimate's task list
    ran,      \* the number of tasks the sequential loop has run
    pool,     \* the worker pool of a parallel batch_estimate call
    res_dict  \* batch_estimate's flat result dictionary res

searchVars == <<pc, args, it, xs, ys, warned, err>>

driverVars == <<call, f, calls, ret, rb>>

batchVars == <<batch, tasks, ran, pool, res_dict>>

vars ==
    <<pc, args, it, xs, ys, warned, err, call, f, calls, ret, rb,
      batch, tasks, ran, pool, res_dict>>

\* ---------------------------------------------------------------- bounds
MaxStart == 1
MaxLen == 4
MaxVal == 2
MaxStep == 3
MaxCost == 3

\* ---------------------------------------------------------------- values
None == {}

Some(v) == {v}

Get(o) == CHOOSE v \in o : TRUE

Feasible(n) == [feasible |-> TRUE, rop |-> n]

Infeasible == [feasible |-> FALSE, rop |-> 0]

Results == {Feasible(n) : n \in 0..MaxVal} \cup {Infeasible}

abs(n) == IF n < 0 THEN -n ELSE n

Max(a, b) == IF a >= b THEN a ELSE b

Min(a, b) == IF a <= b THEN a ELSE b

\* ceil((a + b) / 2) and floor((a + b) / 2) for integers a, b
ceil2(n) == -((-n) \div 2)

floor2(n) == n \div 2

\* --------------------------------------------------------- local_minimum
Comparators == {"le", "lt", "any"}

\* smallerf(x, best): the default x <= best, the strict x < best, or an
\* arbitrary predicate whose answer c is chosen by the environment
smallerf(kind, x, best, c) ==
    CASE kind = "le" -> x.rop <= best.rop
      [] kind = "lt" -> x.rop < best.rop
      [] OTHER -> c

init_raises_empty(a) == a.stop <= a.start

init_raises(a) == a.stop < a.start

local_minimum_init(a) ==
    [suppress_bounds_warning |-> a.suppress_bounds_warning,
     test_step_size |-> a.test_step_size,
     start |-> a.start,
     stop |-> a.stop - 1,
     initial_bounds |-> <<a.start, a.stop - 1>>,
     smallerf |-> a.smallerf,
     direction |-> -1,
     last_x |-> None,
     next_x |-> Some(a.stop - 1),
     best |-> [x |-> None, y |-> None],
     all_x |-> {}]

looping_unchecked(self) == FALSE

looping(self) == Get(self.next_x) \in self.all_x

out_of_bounds_unchecked(self) == FALSE

out_of_bounds_above_only(self) == self.initial_bounds[2] < Get(self.next_x)

out_of_bounds(self) ==
    \/ Get(self.next_x) < self.initial_bounds[1]
    \/ self.initial_bounds[2] < Get(self.next_x)

\* the abort decision of __next__
next_abort(self) ==
    IF self.next_x = None THEN TRUE
    ELSE IF looping(self) THEN TRUE
    ELSE out_of_bounds(self)

\* __next__ when it returns a candidate (the candidate is the new last_x)
next_advance(self) == [self EXCEPT !.last_x = self.next_x, !.next_x = None]

bounds_warning_lower(self) ==
    /\ self.best.x # None
    /\ Get(self.best.x) = self.initial_bounds[1]
    /\ ~self.suppress_bounds_warning

\* __next__ when it stops: is the boundary advisory logged?
bounds_warning(self) ==
    /\ self.best.x # None
    /\ Get(self.best.x) \in {self.initial_bounds[1], self.initial_bounds[2]}
    /\ ~self.suppress_bounds_warning

update_record_replacing(self, res) ==
    LET s1 == [self EXCEPT !.all_x = self.last_x]
    IN IF s1.best.x = None
       THEN [s1 EXCEPT !.best = [x |-> s1.last_x, y |-> Some(res)]]
       ELSE s1

\* update(res), first part: record the candidate, take the first result
update_record(self, res) ==
    LET s1 == [self EXCEPT !.all_x = @ \cup self.last_x]
    IN IF s1.best.x = None
       THEN [s1 EXCEPT !.best = [x |-> s1.last_x, y |-> Some(res)]]
       ELSE s1

\* update(res): "res is not False and self._smallerf(res, self._best[1])"
update_better(self, res, c) ==
    /\ res.feasible
    /\ smallerf(self.smallerf, res, Get(update_record(self, res).best.y), c)

update_improved_unit_step(s, res) ==
    LET x == Get(s.last_x)
        b == [s EXCEPT !.best = [x |-> s.last_x, y |-> Some(res)]]
    IN CASE abs(s.direction) # 1 ->
              [b EXCEPT !.direction = -1, !.next_x = Some(x - 1)]
         [] s.direction = -1 ->
              [b EXCEPT !.direction = -2, !.stop = x,
                        !.next_x = Some(ceil2(s.start + x))]
         [] OTHER ->
              [b EXCEPT !.direction = 2, !.start = x,
                        !.next_x = Some(floor2(x + s.stop))]

update_improved_keeps_start(s, res) ==
    LET x == Get(s.last_x)
        b == [s EXCEPT !.best = [x |-> s.last_x, y |-> Some(res)]]
    IN CASE abs(s.direction) # 1 ->
              [b EXCEPT !.direction = -1, !.next_x = Some(x - s.test_step_size)]
         [] s.direction = -1 ->
              [b EXCEPT !.direction = -2, !.stop = x,
                        !.next_x = Some(ceil2(s.start + x))]
         [] OTHER ->
              [b EXCEPT !.direction = 2,
                        !.next_x = Some(floor2(s.start + s.stop))]

update_improved(s, res) ==
    LET x == Get(s.last_x)
        b == [s EXCEPT !.best = [x |-> s.last_x, y |-> Some(res)]]
    IN CASE abs(s.direction) # 1 ->
              [b EXCEPT !.direction = -1, !.next_x = Some(x - s.test_step_size)]
         [] s.direction = -1 ->
              [b EXCEPT !.direction = -2, !.stop = x,
                        !.next_x = Some(ceil2(s.start + x))]
         [] OTHER ->
              [b EXCEPT !.direction = 2, !.start = x,
                        !.next_x = Some(floor2(x + s.stop))]

update_not_improved(s) ==
    LET x == Get(s.last_x)
    IN CASE s.direction = -1 ->
              [s EXCEPT !.direction = 1, !.next_x = Some(x + 2 * s.test_step_size)]
         [] s.direction = 1 -> [s EXCEPT !.next_x = None]
         [] s.direction = -2 ->
              [s EXCEPT !.start = x, !.next_x = Some(ceil2(x + s.stop))]
         [] OTHER ->
              [s EXCEPT !.stop = x, !.next_x = Some(floor2(s.start + x))]

\* "We are repeating ourselves, time to stop"
update_repeat(s) == IF s.next_x = s.last_x THEN [s EXCEPT !.next_x = None] ELSE s

local_minimum_update(self, res, c) ==
    LET s == update_record(self, res)
    IN update_repeat(IF update_better(self, res, c)
                     THEN update_improved(s, res)
                     ELSE update_not_improved(s))

\* ------------------------------------------------- the search context
\* the longest interval of a search context driven on its own
MaxSpan == 5

ArgSet ==
    [start : -MaxStart..MaxStart,
     len : -1..MaxSpan,
     smallerf : Comparators,
     suppress_bounds_warning : BOOLEAN,
     test_step_size : 1..MaxStep]

\* longer intervals, searched with the default comparator and step size
WideSpan == 7

WideArgSet ==
    [start : {0},
     len : (MaxSpan + 1)..WideSpan,
     smallerf : {"le"},
     suppress_bounds_warning : {FALSE},
     test_step_size : {1}]

MkArgs(r) ==
    [start |-> r.start, stop |-> r.start + r.len, smallerf |-> r.smallerf,
     suppress_bounds_warning |-> r.suppress_bounds_warning,
     test_step_size |-> r.test_step_size]

NoInstance == [constructed |-> FALSE]

NoCall == [fn |-> "none"]

NoLocals == [p |-> None, y |-> None, lower |-> 0, upper |-> 0, cst |-> <<>>]

NoPool ==
    [open |-> FALSE, next |-> 1, running |-> {}, completed |-> <<>>,
     results |-> <<>>, failed |-> <<>>]

NoBatch ==
    /\ batch = [fn |-> "none"]
    /\ tasks = <<>>
    /\ ran = 0
    /\ pool = NoPool
    /\ res_dict = <<>>

NoDriver ==
    /\ call = NoCall
    /\ f = <<>>
    /\ calls = <<>>
    /\ ret = None
    /\ rb = NoLocals

Init ==
    /\ pc = "new"
    /\ \E r \in ArgSet \cup WideArgSet : args = MkArgs(r)
    /\ it = NoInstance
    /\ xs = <<>>
    /\ ys = <<>>
    /\ warned = FALSE
    /\ err = "none"
    /\ NoDriver
    /\ NoBatch

\* local_minimum(start, stop, ...) raises
ConstructFails ==
    /\ pc = "new"
    /\ init_raises(args)
    /\ pc' = "error"
    /\ err' = "ValueError"
    /\ UNCHANGED <<args, it, xs, ys, warned>>
    /\ UNCHANGED driverVars
    /\ UNCHANGED batchVars

\* local_minimum(start, stop, ...) returns the context
Construct ==
    /\ pc = "new"
    /\ ~init_raises(args)
    /\ it' = local_minimum_init(args)
    /\ pc' = "ready"
    /\ UNCHANGED <<args, xs, ys, warned, err>>
    /\ UNCHANGED driverVars
    /\ UNCHANGED batchVars

\* __next__ returns a candidate
NextCandidate ==
    /\ pc = "ready"
    /\ ~next_abort(it)
    /\ it' = next_advance(it)
    /\ xs' = Append(xs, Get(it.next_x))
    /\ pc' = "pending"
    /\ UNCHANGED <<args, ys, warned, err>>
    /\ UNCHANGED driverVars
    /\ UNCHANGED batchVars

\* __next__ raises StopIteration
Exhausted ==
    /\ pc = "ready"
    /\ next_abort(it)
    /\ warned' = bounds_warning(it)
    /\ pc' = "done"
    /\ UNCHANGED <<args, it, xs, ys, err>>
    /\ UNCHANGED driverVars
    /\ UNCHANGED batchVars

\* the caller reports a result for the candidate it was given
Report ==
    /\ pc = "pending"
    /\ \E res \in Results, c \in BOOLEAN :
          /\ (it.smallerf # "any" => c)
          /\ it' = local_minimum_update(it, res, c)
          /\ ys' = Append(ys, res)
    /\ pc' = "ready"
    /\ UNCHANGED <<args, xs, warned, err>>
    /\ UNCHANGED driverVars
    /\ UNCHANGED batchVars

Next == ConstructFails \/ Construct \/ NextCandidate \/ Exhausted \/ Report

Spec == Init /\ [][Next]_vars

\* the caller keeps driving the iterator until it is exhausted
FairSpec == Spec /\ WF_vars(Next)

\* ------------------------------------------------------------- drivers
\* ceil(a / b) and floor(a / b) for an integer a and b >= 1
ceil_div(a, b) == -((-a) \div b)

floor_div(a, b) == a \div b

\* Python's round(n / 2): halves round to the even neighbour
round_half(n) ==
    IF n % 2 = 0 THEN n \div 2
    ELSE IF ((n - 1) \div 2) % 2 = 0 THEN (n - 1) \div 2 ELSE (n + 1) \div 2

\* the local_minimum each driver constructs
binary_search_stop_exclusive(c) == c.stop

binary_search_stop(c) == c.stop + 1

robust_start(c) == ceil_div(c.start, c.step)

robust_stop(c) == floor_div(c.stop, c.step)

context_args(c) ==
    [start |-> CASE c.fn = "binary_search_robust" -> robust_start(c)
                 [] OTHER -> c.start,
     stop |-> CASE c.fn = "binary_search" -> binary_search_stop(c)
                [] c.fn = "binary_search_robust" -> robust_stop(c)
                [] OTHER -> c.stop,
     smallerf |-> c.smallerf,
     suppress_bounds_warning |-> c.suppress_bounds_warning,
     test_step_size |-> 1]

\* "if stop - start > step": binary_search_robust runs its coarse search
robust_coarse(c) == c.stop - c.start > c.step

robust_midpoint(c) == round_half(c.stop - c.start)

\* the point f is invoked on for candidate x
eval_point(c, x) == IF c.fn = "binary_search_robust" THEN c.step * x ELSE x

robust_lower(c, p) == Max(c.start, p - c.step)

robust_upper(c, p) == Min(c.stop, p + c.step)

\* Python's min(cst): the first element that no other is smaller than
RECURSIVE list_min_from(_, _, _)
list_min_from(cst, i, m) ==
    IF i > Len(cst) THEN m
    ELSE list_min_from(cst, i + 1, IF cst[i].rop < m.rop THEN cst[i] ELSE m)

list_min(cst) == list_min_from(cst, 2, cst[1])

\* the integers a call can invoke f on
FDom(c) ==
    CASE c.fn = "local_minimum" -> c.start..(c.stop - 1)
      [] c.fn = "binary_search" -> c.start..c.stop
      [] OTHER ->
           IF robust_coarse(c) THEN c.start..(c.stop - 1)
           ELSE Min(c.start, robust_midpoint(c))..Max(c.stop - 1, robust_midpoint(c))

\* a call of a driver; raises is the set of points at which the cost
\* function raises instead of returning a result
MkCall(fn, start, len, step, cmp, quiet) ==
    [fn |-> fn, start |-> start, stop |-> start + len, step |-> step,
     smallerf |-> cmp, suppress_bounds_warning |-> quiet, raises |-> {}]

CallSet ==
    {MkCall("local_minimum", s, n, 1, cmp, q) :
        s \in -MaxStart..MaxStart, n \in 0..MaxLen, cmp \in {"le", "lt"}, q \in BOOLEAN}
    \cup {MkCall("binary_search", s, n, 1, "le", FALSE) :
        s \in -MaxStart..MaxStart, n \in 0..(MaxLen - 1)}
    \cup {MkCall("binary_search_robust", s, n, st, "le", FALSE) :
        s \in -MaxStart..MaxStart, n \in 0..MaxLen, st \in 1..MaxStep}

\* binary_search with a cost function that raises at one point
RaisingCallSet ==
    {[c EXCEPT !.raises = {p}] :
        c \in {MkCall("binary_search", s, n, 1, "le", FALSE) :
                  s \in -MaxStart..MaxStart, n \in 0..(MaxLen - 1)},
        p \in (-MaxStart)..(MaxStart + MaxLen - 1)}

\* the regression case of update's doctest: binary_search(f, 10, 30, "x")
\* with f(x) = 1 if x >= 19 else 2
DocStart == 10
DocStop == 30
DocThreshold == 19

DocCall == MkCall("binary_search", DocStart, DocStop - DocStart, 1, "le", FALSE)

DocF == [x \in DocStart..DocStop |-> IF x >= DocThreshold THEN 1 ELSE 2]

NoArgs == [constructed |-> FALSE]

InitF ==
    /\ pc = "call"
    /\ \/ /\ call \in CallSet
          /\ f \in [FDom(call) -> 0..MaxCost]
       \/ /\ call \in RaisingCallSet
          /\ call.raises \subseteq FDom(call)
          /\ f \in [FDom(call) -> 0..MaxCost]
       \/ /\ call = DocCall
          /\ f = DocF
    /\ args = NoArgs
    /\ it = NoInstance
    /\ xs = <<>>
    /\ ys = <<>>
    /\ warned = FALSE
    /\ err = "none"
    /\ calls = <<>>
    /\ ret = None
    /\ rb = NoLocals
    /\ NoBatch

\* the driver's "with local_minimum(...) as it" raises
EnterFails ==
    /\ pc = "call"
    /\ init_raises(context_args(call))
    /\ args' = context_args(call)
    /\ pc' = "error"
    /\ err' = "ValueError"
    /\ UNCHANGED <<it, xs, ys, warned, call, f, calls, ret, rb>>
    /\ UNCHANGED batchVars

\* the driver's "with local_minimum(...) as it" succeeds
Enter ==
    /\ pc = "call"
    /\ ~init_raises(context_args(call))
    /\ args' = context_args(call)
    /\ it' = local_minimum_init(context_args(call))
    /\ pc' = IF call.fn = "binary_search_robust" /\ ~robust_coarse(call)
             THEN "midpoint" ELSE "ready"
    /\ UNCHANGED <<xs, ys, warned, err, call, f, calls, ret, rb>>
    /\ UNCHANGED batchVars

\* "for x in it": __next__ returns a candidate
Propose ==
    /\ pc = "ready"
    /\ ~next_abort(it)
    /\ it' = next_advance(it)
    /\ xs' = Append(xs, Get(it.next_x))
    /\ pc' = "pending"
    /\ UNCHANGED <<args, ys, warned, err, call, f, calls, ret, rb>>
    /\ UNCHANGED batchVars

local_minimum_exit_swallows == TRUE

\* what __exit__ returns: "pass", so None, and the with statement lets an
\* error of its body through
local_minimum_exit == FALSE

\* "f(**kwds_)" raises for the candidate just returned: the error leaves
\* the loop and the with statement, nothing in binary_search catches it
\* and update is not called
EvaluateRaises ==
    /\ pc = "pending"
    /\ eval_point(call, Get(it.last_x)) \in call.raises
    /\ calls' = Append(calls, eval_point(call, Get(it.last_x)))
    /\ IF local_minimum_exit
       THEN pc' = "done" /\ err' = err
       ELSE pc' = "error" /\ err' = "InsufficientSamplesError"
    /\ UNCHANGED <<args, it, xs, ys, warned, call, f, ret, rb>>
    /\ UNCHANGED batchVars

\* "it.update(f(**kwds_))" for the candidate just returned
Evaluate ==
    /\ pc = "pending"
    /\ eval_point(call, Get(it.last_x)) \notin call.raises
    /\ LET pt == eval_point(call, Get(it.last_x))
           res == Feasible(f[pt])
       IN /\ calls' = Append(calls, pt)
          /\ ys' = Append(ys, res)
          /\ it' = local_minimum_update(it, res, TRUE)
    /\ pc' = "ready"
    /\ UNCHANGED <<args, xs, warned, err, call, f, ret, rb>>
    /\ UNCHANGED batchVars

\* __next__ raises StopIteration: local_minimum is exhausted and
\* binary_search returns it.y
Return ==
    /\ pc = "ready"
    /\ next_abort(it)
    /\ call.fn # "binary_search_robust"
    /\ warned' = bounds_warning(it)
    /\ ret' = it.best.y
    /\ pc' = "done"
    /\ UNCHANGED <<args, it, xs, ys, err, call, f, calls, rb>>
    /\ UNCHANGED batchVars

\* the coarse search of binary_search_robust is exhausted:
\* "p = step * it.x; y = it.y"
CoarseDone ==
    /\ pc = "ready"
    /\ next_abort(it)
    /\ call.fn = "binary_search_robust"
    /\ warned' = bounds_warning(it)
    /\ IF it.best.x = None
       THEN /\ pc' = "error"
            /\ err' = "TypeError"
            /\ rb' = rb
       ELSE /\ pc' = "window"
            /\ err' = err
            /\ rb' = [rb EXCEPT !.p = Some(call.step * Get(it.best.x)), !.y = it.best.y]
    /\ UNCHANGED <<args, it, xs, ys, call, f, calls, ret>>
    /\ UNCHANGED batchVars

\* the range is no larger than one step:
\* "p = round((stop - start)/2); y = f(p)"
Midpoint ==
    /\ pc = "midpoint"
    /\ LET p == robust_midpoint(call)
       IN /\ calls' = Append(calls, p)
          /\ rb' = [rb EXCEPT !.p = Some(p), !.y = Some(Feasible(f[p]))]
    /\ pc' = "window"
    /\ UNCHANGED <<args, it, xs, ys, warned, err, call, f, ret>>
    /\ UNCHANGED batchVars

\* "lower = max(start, p - step); upper = min(stop, p + step);
\*  if lower >= upper: return y"
Window ==
    /\ pc = "window"
    /\ LET lower == robust_lower(call, Get(rb.p))
           upper == robust_upper(call, Get(rb.p))
       IN /\ rb' = [rb EXCEPT !.lower = lower, !.upper = upper]
          /\ IF lower >= upper
             THEN pc' = "done" /\ ret' = rb.y
             ELSE pc' = "scan" /\ ret' = ret
    /\ UNCHANGED <<args, it, xs, ys, warned, err, call, f, calls>>
    /\ UNCHANGED batchVars

\* "for p in range(lower, upper): cst.append(f(p))", one point
Scan ==
    /\ pc = "scan"
    /\ rb.lower + Len(rb.cst) < rb.upper
    /\ LET p == rb.lower + Len(rb.cst)
       IN /\ calls' = Append(calls, p)
          /\ rb' = [rb EXCEPT !.cst = Append(@, Feasible(f[p]))]
    /\ UNCHANGED <<pc, args, it, xs, ys, warned, err, call, f, ret>>
    /\ UNCHANGED batchVars

\* "return min(cst)"
ScanReturn ==
    /\ pc = "scan"
    /\ rb.lower + Len(rb.cst) = rb.upper
    /\ ret' = Some(list_min(rb.cst))
    /\ pc' = "done"
    /\ UNCHANGED <<args, it, xs, ys, warned, err, call, f, calls, rb>>
    /\ UNCHANGED batchVars

NextF ==
    \/ EnterFails \/ Enter \/ Propose \/ Evaluate \/ EvaluateRaises \/ Return
    \/ CoarseDone \/ Midpoint \/ Window \/ Scan \/ ScanReturn

SpecF == InitF /\ [][NextF]_vars

\* ------------------------------------------------------- batch_estimate
\* bounds of the batch inputs
MaxParams == 2
MaxAlgs == 2
MaxTasks == 4
MaxJobs == 3

\* A dictionary is the sequence of its <<key, value>> pairs in insertion
\* order, with no key twice.
dict_has(d, key) == \E i \in 1..Len(d) : d[i][1] = key

dict_get(d, key) == d[CHOOSE i \in 1..Len(d) : d[i][1] = key][2]

dict_keys(d) == [i \in 1..Len(d) |-> d[i][1]]

\* d[key] = value: a present key keeps its place
dict_set(d, key, value) ==
    IF dict_has(d, key)
    THEN [i \in 1..Len(d) |-> IF d[i][1] = key THEN <<key, value>> ELSE d[i]]
    ELSE Append(d, <<key, value>>)

\* dict(pairs)
RECURSIVE dict_from_upto(_, _)
dict_from_upto(pairs, n) ==
    IF n = 0 THEN <<>>
    ELSE dict_set(dict_from_upto(pairs, n - 1), pairs[n][1], pairs[n][2])

dict_from(pairs) == dict_from_upto(pairs, Len(pairs))

\* A cost function: its __name__ when it has one, its repr, which function
\* it is, and the parameters on which it raises instead of returning.  Two
\* functions can share a __name__ (two lambdas), and a functools.partial
\* has none.
CostFunctions ==
    {[name |-> Some("f"), repr |-> "<function f>", id |-> 1, raises |-> {}],
     [name |-> Some("g"), repr |-> "<function g>", id |-> 2, raises |-> {}],
     [name |-> Some("f"), repr |-> "<function f'>", id |-> 3, raises |-> {}],
     [name |-> None, repr |-> "functools.partial(h)", id |-> 4, raises |-> {}],
     [name |-> Some("e"), repr |-> "<function e>", id |-> 5, raises |-> {1}]}

f_name(fn) == IF fn.name # None THEN Get(fn.name) ELSE fn.repr

\* the result of fn(x, **kwds): cost functions are deterministic, and the
\* results of different calls are told apart
apply(fn, x, kwds) == <<fn.id, x, kwds>>

\* "if isinstance(params, LWEParameters): params = (params,)" and
\* "try: iter(algorithm) except TypeError: algorithm = (algorithm,)"
as_tuple(v) == IF v.iterable THEN v.items ELSE <<v.item>>

Iterable(items) == [iterable |-> TRUE, items |-> items]

Single(item) == [iterable |-> FALSE, item |-> item]

\* "for x in params: for f in algorithm: tasks.append(...)"
build_tasks(params, algorithm, kwds) ==
    [i \in 1..(Len(params) * Len(algorithm)) |->
        LET x == params[((i - 1) \div Len(algorithm)) + 1]
            fn == algorithm[((i - 1) % Len(algorithm)) + 1]
        IN [f |-> fn, kwds |-> kwds, x |-> x, f_repr |-> f_name(fn)]]

\* _batch_estimatef(f, x, lvl, f_repr)
batch_estimatef(t) == apply(t.f, t.x, t.kwds)

task_raises_never(t) == FALSE

\* "y = f(x)" raises: nothing in _batch_estimatef catches it
task_raises(t) == t.x \in t.f.raises

\* the error a raising cost function raises
task_error(t) == "InsufficientSamplesError"

task_key(t) == <<t.f_repr, t.x>>

\* the chunk size of "pool.starmap(_batch_estimatef, tasks)" on a pool of
\* jobs workers: the tasks are handed out in chunks of
\* ceil(len(tasks) / (4 * jobs)) consecutive tasks
starmap_chunksize(n, jobs) == -((-n) \div (4 * jobs))

\* the result of starmap is ready once every chunk has been handed out and
\* no worker is at a task
starmap_ready(pl, ts) == pl.next > Len(ts) /\ pl.running = {}

starmap_results_unordered(pl, ts) == [i \in 1..Len(ts) |-> pl.results[pl.completed[i]]]

\* pool.starmap's return value: the results in the order of the tasks
starmap_results(pl, ts) == [i \in 1..Len(ts) |-> pl.results[i]]

\* "dict([((f_repr, x), res[i]) for i, (f, x, _, f_repr) in enumerate(tasks)])"
parallel_dict(pl, ts) ==
    dict_from([i \in 1..Len(ts) |-> <<task_key(ts[i]), starmap_results(pl, ts)[i]>>])

regroup_step_reset(rt, d, key) ==
    dict_set(rt, key[2], dict_set(<<>>, key[1], dict_get(d, key)))

\* "ret[x] = ret.get(x, dict()); ret[x][f] = res[f, x]" for one key (f, x)
regroup_step(rt, d, key) ==
    LET inner == IF dict_has(rt, key[2]) THEN dict_get(rt, key[2]) ELSE <<>>
    IN dict_set(rt, key[2], dict_set(inner, key[1], dict_get(d, key)))

\* "for f, x in res: ..."
RECURSIVE regroup_upto(_, _)
regroup_upto(d, n) ==
    IF n = 0 THEN <<>> ELSE regroup_step(regroup_upto(d, n - 1), d, d[n][1])

regroup(d) == regroup_upto(d, Len(d))

SeqsUpTo(S, n) == UNION {[1..m -> S] : m \in 0..n}

ParamInputs ==
    {Iterable(ps) : ps \in SeqsUpTo(1..MaxParams, MaxParams)}
    \cup {Single(x) : x \in 1..MaxParams}

AlgorithmInputs ==
    {Iterable(fs) : fs \in SeqsUpTo(CostFunctions, MaxAlgs)}
    \cup {Single(fn) : fn \in CostFunctions}

KwdsInputs == {"", "red_cost_model=m"}

\* the tasks of a long batch, more than four per worker of its two-worker
\* pool, so that a chunk holds more than one task
WideTasks == 9

\* long batches: one cost function on WideTasks parameters
WideBatches ==
    {[fn |-> "batch_estimate",
      params |-> Iterable([i \in 1..WideTasks |-> ((i - 1) % MaxParams) + 1]),
      algorithm |-> Single(fn), jobs |-> 2, kwds |-> ""] : fn \in CostFunctions}

InitB ==
    /\ pc = "call"
    /\ \/ \E ps \in ParamInputs, al \in AlgorithmInputs, j \in 1..MaxJobs, kw \in KwdsInputs :
             /\ Len(as_tuple(ps)) * Len(as_tuple(al)) <= MaxTasks
             /\ batch = [fn |-> "batch_estimate", params |-> ps, algorithm |-> al,
                         jobs |-> j, kwds |-> kw]
       \/ batch \in WideBatches
    /\ tasks = <<>>
    /\ ran = 0
    /\ pool = NoPool
    /\ res_dict = <<>>
    /\ args = NoArgs
    /\ it = NoInstance
    /\ xs = <<>>
    /\ ys = <<>>
    /\ warned = FALSE
    /\ err = "none"
    /\ NoDriver

\* batch_estimate up to "if jobs == 1": the task list, then either the
\* empty res of the sequential loop or "pool = Pool(jobs)" and the
\* submission of the tasks to starmap
BuildTasks ==
    /\ pc = "call"
    /\ tasks' = build_tasks(as_tuple(batch.params), as_tuple(batch.algorithm), batch.kwds)
    /\ IF batch.jobs = 1
       THEN pc' = "sequential" /\ pool' = pool
       ELSE pc' = "starmap" /\ pool' = [pool EXCEPT !.open = TRUE]
    /\ UNCHANGED <<batch, ran, res_dict>>
    /\ UNCHANGED <<args, it, xs, ys, warned, err>>
    /\ UNCHANGED driverVars

\* one turn of "for f, x, lvl, f_repr in tasks"
SeqTask ==
    /\ pc = "sequential"
    /\ ran < Len(tasks)
    /\ ~task_raises(tasks[ran + 1])
    /\ LET t == tasks[ran + 1]
       IN res_dict' = dict_set(res_dict, task_key(t), batch_estimatef(t))
    /\ ran' = ran + 1
    /\ UNCHANGED <<batch, tasks, pool>>
    /\ UNCHANGED searchVars
    /\ UNCHANGED driverVars

\* the task of this turn raises: the error leaves the loop and the call,
\* and the local res is dropped with the frame
SeqTaskRaises ==
    /\ pc = "sequential"
    /\ ran < Len(tasks)
    /\ task_raises(tasks[ran + 1])
    /\ ran' = ran + 1
    /\ pc' = "error"
    /\ err' = task_error(tasks[ran + 1])
    /\ UNCHANGED <<batch, tasks, pool, res_dict>>
    /\ UNCHANGED <<args, it, xs, ys, warned>>
    /\ UNCHANGED driverVars

\* the sequential loop is over: the table is built and returned
SeqReturn ==
    /\ pc = "sequential"
    /\ ran = Len(tasks)
    /\ ret' = Some(regroup(res_dict))
    /\ pc' = "done"
    /\ UNCHANGED batchVars
    /\ UNCHANGED <<args, it, xs, ys, warned, err>>
    /\ UNCHANGED <<call, f, calls, rb>>

\* a free worker of the pool takes the next chunk of the queue; it is then
\* at the first task of the chunk
WorkerStart ==
    /\ pc = "starmap"
    /\ pool.next <= Len(tasks)
    /\ Cardinality(pool.running) < batch.jobs
    /\ LET last == Min(Len(tasks), pool.next + starmap_chunksize(Len(tasks), batch.jobs) - 1)
       IN pool' = [pool EXCEPT
                     !.running = @ \cup {[task |-> pool.next, last |-> last]},
                     !.next = last + 1]
    /\ UNCHANGED <<batch, tasks, ran, res_dict>>
    /\ UNCHANGED searchVars
    /\ UNCHANGED driverVars

\* a worker finishes the task it is at; the result goes to the slot of the
\* task, and the worker goes on with the next task of its chunk or, at the
\* end of the chunk, is free again
WorkerFinish ==
    /\ pc = "starmap"
    /\ \E w \in pool.running :
          /\ ~task_raises(tasks[w.task])
          /\ pool' = [pool EXCEPT
                      !.running = (@ \ {w}) \cup
                                  (IF w.task < w.last
                                   THEN {[w EXCEPT !.task = @ + 1]} ELSE {}),
                      !.completed = Append(@, w.task),
                      !.results = [j \in (DOMAIN @) \cup {w.task} |->
                                      IF j = w.task THEN batch_estimatef(tasks[w.task])
                                      ELSE pool.results[j]]]
    /\ UNCHANGED <<batch, tasks, ran, res_dict>>
    /\ UNCHANGED searchVars
    /\ UNCHANGED driverVars

\* the task a worker is at raises: the error ends the chunk, whose other
\* tasks are not run, and is sent back in place of the results of the
\* chunk; the pool goes on with the other chunks
WorkerRaises ==
    /\ pc = "starmap"
    /\ \E w \in pool.running :
          /\ task_raises(tasks[w.task])
          /\ pool' = [pool EXCEPT
                      !.running = @ \ {w},
                      !.completed = Append(@, w.task),
                      !.failed = Append(@, w.task)]
    /\ UNCHANGED <<batch, tasks, ran, res_dict>>
    /\ UNCHANGED searchVars
    /\ UNCHANGED driverVars

\* every chunk is finished and one has failed: "pool.starmap(...)" raises
\* the first error it received, and the error leaves the call
StarmapRaises ==
    /\ pc = "starmap"
    /\ starmap_ready(pool, tasks)
    /\ pool.failed # <<>>
    /\ pc' = "error"
    /\ err' = task_error(tasks[pool.failed[1]])
    /\ UNCHANGED batchVars
    /\ UNCHANGED <<args, it, xs, ys, warned>>
    /\ UNCHANGED driverVars

\* the call is over and nothing refers to the pool any more: the garbage
\* collector may finalise it, which terminates its workers; the code
\* itself never closes or terminates the pool
PoolCollected ==
    /\ pc \in {"done", "error"}
    /\ pool.open
    /\ pool' = [pool EXCEPT !.open = FALSE]
    /\ UNCHANGED <<batch, tasks, ran, res_dict>>
    /\ UNCHANGED searchVars
    /\ UNCHANGED driverVars

\* every chunk is finished: starmap returns, res and the table are built
StarmapReturn ==
    /\ pc = "starmap"
    /\ starmap_ready(pool, tasks)
    /\ pool.failed = <<>>
    /\ res_dict' = parallel_dict(pool, tasks)
    /\ ret' = Some(regroup(parallel_dict(pool, tasks)))
    /\ pc' = "done"
    /\ UNCHANGED <<batch, tasks, ran, pool>>
    /\ UNCHANGED <<args, it, xs, ys, warned, err>>
    /\ UNCHANGED <<call, f, calls, rb>>

NextB ==
    \/ BuildTasks \/ SeqTask \/ SeqTaskRaises \/ SeqReturn
    \/ WorkerStart \/ WorkerFinish \/ WorkerRaises
    \/ StarmapReturn \/ StarmapRaises \/ PoolCollected

SpecB == InitB /\ [][NextB]_vars

\* ------------------------------------------------------------- claims

Terminated == pc \in {"done", "error"}

\* C3: under strict alternation of __next__ and update, whatever results are
\* reported and whatever the comparator answers, the candidates produced by
\* one local_minimum instance are pairwise different.
C3_NoCandidateTwice ==
    \A i, j \in 1..Len(xs) : i # j => xs[i] # xs[j]

\* a search that was cut short by the loop guard of __next__ after three
\* candidates, one of them reported infeasible
C3_Witness ==
    /\ pc = "done"
    /\ Len(xs) >= 3
    /\ it.next_x # None
    /\ looping(it)
    /\ \E i \in 1..Len(ys) : ~ys[i].feasible

\* C4: for any results, comparator and step size the search terminates, and
\* it never produces more than stop - start candidates.
C4_Terminates ==
    /\ [](Len(xs) <= Max(0, args.stop - args.start))
    /\ <>Terminated

\* an exhausted search that has produced every integer of a three-element
\* interval, so that the bound stop - start is attained
C4_Witness ==
    /\ pc = "done"
    /\ args.stop - args.start = 3
    /\ Len(xs) = 3

\* C6: the constructor raises ValueError exactly when stop < start, before
\* any candidate is produced, and no other error is ever raised.
C6_ConfigurationError ==
    /\ err \in {"none", "ValueError"}
    /\ (err = "ValueError") = (pc = "error")
    /\ (pc = "error" => args.stop < args.start /\ xs = <<>> /\ it = NoInstance)
    /\ (pc # "new" /\ args.stop < args.start => pc = "error")

C6_Witness == pc = "error" /\ err = "ValueError" /\ args.stop = args.start - 1

\* ------------------------------------------- claims about cost functions
\* g strictly decreases to one minimum and strictly increases after it
StrictlyUnimodal(g, a, b) ==
    \E m \in a..b :
        /\ \A i \in a..(m - 1) : g[i] > g[i + 1]
        /\ \A i \in m..(b - 1) : g[i] < g[i + 1]

StrictlyDecreasing(g, a, b) == \A i \in a..(b - 1) : g[i] > g[i + 1]

MinOver(g, a, b) == CHOOSE v \in {g[i] : i \in a..b} : \A i \in a..b : v <= g[i]

ArgMin(g, a, b) == CHOOSE i \in a..b : g[i] = MinOver(g, a, b)

NonEmpty == call.start < call.stop

\* C1: on a strictly unimodal cost function over [start, stop), a
\* local_minimum(start, stop) with the default comparator, driven to
\* exhaustion, ends with best-so-far equal to the minimum of f over the
\* interval, at its minimiser.
C1_UnimodalMinimum ==
    /\ call.fn = "local_minimum"
    /\ call.smallerf = "le"
    /\ NonEmpty
    /\ StrictlyUnimodal(f, call.start, call.stop - 1)
    /\ pc = "done"
    => /\ it.best.y = Some(Feasible(MinOver(f, call.start, call.stop - 1)))
       /\ it.best.x = Some(ArgMin(f, call.start, call.stop - 1))

\* C2: binary_search(f, start, stop, "x") with f(x) = |x - k| for a k in
\* [start, stop) returns 0, the result of the candidate k.
C2_AbsoluteValue ==
    /\ call.fn = "binary_search"
    /\ NonEmpty
    /\ \E k \in call.start..(call.stop - 1) :
          f = [x \in call.start..call.stop |-> abs(x - k)]
    /\ pc = "done"
    => ret = Some(Feasible(0))

\* f is a two-valued step function with threshold t: the value lo = f(stop)
\* from t on, and one value hi > lo everywhere below t
StepCase(t) ==
    /\ call.raises = {}
    /\ call.start <= t
    /\ t <= call.stop
    /\ \A x \in call.start..call.stop :
          IF x >= t THEN f[x] = f[call.stop]
          ELSE f[x] = f[call.start] /\ f[x] > f[call.stop]

\* C5: binary_search on a two-valued step function (lo from the threshold
\* t on, hi below it, start <= t <= stop) does not loop on the plateau: it
\* raises nothing, asks for no candidate twice and for no more candidates
\* than the range holds, and it returns the lo result.
C5_StepFunction ==
    call.fn = "binary_search" =>
        \A t \in DOMAIN f :
            StepCase(t) =>
                /\ pc # "error"
                /\ C3_NoCandidateTwice
                /\ Len(xs) <= call.stop - call.start + 1
                /\ (pc = "done" => ret = Some(Feasible(f[call.stop])))

\* the doctest's search (start 10, stop 30, threshold 19) has returned
\* after the loop guard of __next__ ended it
C5_Witness ==
    /\ call = DocCall
    /\ StepCase(DocThreshold)
    /\ pc = "done"
    /\ it.next_x # None
    /\ looping(it)
    /\ ret = Some(Feasible(1))

\* C7: on a strictly decreasing cost function a local_minimum(start, stop)
\* driven to exhaustion ends with best candidate stop - 1, and the boundary
\* advisory is logged exactly when suppress_bounds_warning is not set.
C7_Decreasing ==
    /\ call.fn = "local_minimum"
    /\ NonEmpty
    /\ StrictlyDecreasing(f, call.start, call.stop - 1)
    /\ pc = "done"
    => /\ it.best.x = Some(call.stop - 1)
       /\ warned = ~call.suppress_bounds_warning

\* an exhausted search over four points of a strictly decreasing function,
\* with the advisory logged
C7_Witness ==
    /\ call.fn = "local_minimum"
    /\ call.stop - call.start = 4
    /\ StrictlyDecreasing(f, call.start, call.stop - 1)
    /\ pc = "done"
    /\ Len(xs) >= 2
    /\ it.next_x # None
    /\ looping(it)
    /\ warned

\* C8: on a strictly unimodal (or strictly monotone) cost function
\* binary_search_robust(f, start, stop, param, step) returns the minimum
\* of f over [start, stop), for every step >= 1.
C8_RobustMinimum ==
    /\ call.fn = "binary_search_robust"
    /\ NonEmpty
    /\ StrictlyUnimodal(f, call.start, call.stop - 1)
    /\ Terminated
    => /\ pc = "done"
       /\ ret = Some(Feasible(MinOver(f, call.start, call.stop - 1)))

\* ------------------------------------------- claims about batch_estimate
\* the res dictionary after the sequential loop "res[f_repr, x] = y" has
\* run the first n tasks
RECURSIVE sequential_dict_upto(_, _)
sequential_dict_upto(ts, n) ==
    IF n = 0 THEN <<>>
    ELSE dict_set(sequential_dict_upto(ts, n - 1), task_key(ts[n]), batch_estimatef(ts[n]))

\* the table batch_estimate returns for these arguments with jobs = 1
table_jobs1(b) ==
    LET ts == build_tasks(as_tuple(b.params), as_tuple(b.algorithm), b.kwds)
    IN regroup(sequential_dict_upto(ts, Len(ts)))

\* C9: whatever the order in which the workers take and finish the tasks,
\* the table returned with jobs > 1 is the table returned with jobs = 1:
\* the same keys in the same order with the same values.
C9_ParallelEqualsSequential ==
    pc = "done" => ret = Some(table_jobs1(batch))

\* a parallel call of four tasks has returned although the first task was
\* not the first to finish, and two tasks shared the key (f_repr, x)
C9_Witness ==
    /\ pc = "done"
    /\ batch.jobs > 1
    /\ Len(tasks) = 4
    /\ pool.completed[1] # 1
    /\ Len(res_dict) < Len(tasks)

Injective(sq) == \A i, j \in 1..Len(sq) : i # j => sq[i] # sq[j]

Range(sq) == {sq[i] : i \in 1..Len(sq)}

DistinctInputs ==
    /\ Injective(as_tuple(batch.params))
    /\ Injective([i \in 1..Len(as_tuple(batch.algorithm)) |->
                     f_name(as_tuple(batch.algorithm)[i])])

\* the table has every parameter as outer key and, under each, every
\* function identity as inner key with the value f(x, **kwds)
FullTable(t) ==
    LET ps == as_tuple(batch.params)
        al == as_tuple(batch.algorithm)
    IN /\ Range(dict_keys(t)) = Range(ps)
       /\ Len(t) = Len(ps)
       /\ \A x \in Range(ps) :
             /\ dict_has(t, x)
             /\ Range(dict_keys(dict_get(t, x))) = {f_name(fn) : fn \in Range(al)}
             /\ Len(dict_get(t, x)) = Len(al)
             /\ \A fn \in Range(al) :
                   /\ dict_has(dict_get(t, x), f_name(fn))
                   /\ dict_get(dict_get(t, x), f_name(fn)) = apply(fn, x, batch.kwds)

\* C10 as stated: with pairwise distinct parameters and pairwise distinct
\* function identities the returned table has exactly the parameters as
\* outer keys and under each exactly the identities as inner keys, with
\* table[x][identity(f)] = f(x, **kwds).
C10_FullTable_Original ==
    pc = "done" /\ DistinctInputs => FullTable(Get(ret))

\* C10 (amended): the same, when at least one cost function is given; with
\* no cost function there is no task and the table is empty, whatever the
\* parameters.
C10_FullTable ==
    /\ (pc = "done" /\ DistinctInputs /\ Len(as_tuple(batch.algorithm)) > 0
            => FullTable(Get(ret)))
    /\ (pc = "done" /\ Len(as_tuple(batch.algorithm)) = 0 => ret = Some(<<>>))

\* a call with two parameters and two functions, one of them without a
\* __name__, has returned its table
C10_Witness ==
    /\ pc = "done"
    /\ DistinctInputs
    /\ Len(as_tuple(batch.params)) = 2
    /\ Len(as_tuple(batch.algorithm)) = 2
    /\ \E fn \in Range(as_tuple(batch.algorithm)) : fn.name = None
    /\ Len(Get(ret)) = 2

\* some task of the call raises when it is run
SomeTaskRaises ==
    \E i \in 1..Len(tasks) : tasks[i].x \in tasks[i].f.raises

\* C11: when a task of a batch_estimate call raises, the call ends with
\* that error and returns no table, with jobs = 1 and with jobs > 1: the
\* results of the tasks that completed never reach the caller.
C11_TaskErrorAborts ==
    /\ (batch.fn = "batch_estimate" /\ SomeTaskRaises
            => /\ ret = None
               /\ pc # "done"
               /\ (pc = "error" => err = "InsufficientSamplesError"))
    /\ (batch.fn = "batch_estimate" /\ pc = "error" => SomeTaskRaises /\ ret = None)

\* a parallel call has ended with the error of a task after other tasks
\* had delivered their results
C11_Witness ==
    /\ pc = "error"
    /\ err = "InsufficientSamplesError"
    /\ batch.jobs > 1
    /\ Len(pool.completed) = Len(tasks)
    /\ Len(pool.failed) < Len(pool.completed)
    /\ pool.failed[1] # pool.completed[1]

\* C14: the pool of a batch_estimate call with jobs > 1 is closed or
\* terminated by the time the call returns its table or is aborted by the
\* error of a task.
C14_PoolScopedToCall ==
    batch.fn = "batch_estimate" /\ pc \in {"done", "error"} => ~pool.open

\* C12: when the cost function raises on a candidate, binary_search ends
\* with that error, uncaught, and returns nothing; the cost function is
\* invoked on no further candidate, so a point at which it raises can only
\* be the last point of the calls.
C12_CostErrorPropagates ==
    call.fn = "binary_search" =>
        /\ \A i \in 1..Len(calls) :
              calls[i] \in call.raises
                  => /\ i = Len(calls)
                     /\ pc = "error"
                     /\ err = "InsufficientSamplesError"
                     /\ ret = None
        /\ (err = "InsufficientSamplesError"
              => calls # <<>> /\ calls[Len(calls)] \in call.raises)

\* the cost function has raised on the third candidate of a search, after
\* two results had been reported
C12_Witness ==
    /\ call.fn = "binary_search"
    /\ pc = "error"
    /\ err = "InsufficientSamplesError"
    /\ Len(calls) = 3
    /\ calls[3] \in call.raises
    /\ Len(ys) = 2
    /\ it.best.x # None

\* C13: binary_search(f, start, stop, param) treats stop as exclusive:
\* every candidate x on which f is invoked satisfies start <= x < stop.
C13_StopExclusive ==
    call.fn = "binary_search" =>
        \A i \in 1..Len(calls) : call.start <= calls[i] /\ calls[i] < call.stop

\* the context exists in this state
Constructed == it # NoInstance

\* C15: the visited set of a local_minimum only grows, whatever step is
\* taken, and from the first reported result on the best-so-far candidate
\* is one of the visited candidates.
C15_VisitedGrows ==
    /\ [][Constructed /\ Constructed' => it.all_x \subseteq it'.all_x]_vars
    /\ [](ys # <<>> => it.best.x # None /\ it.best.x \subseteq it.all_x)

\* three results have been reported and the best-so-far candidate is not
\* the candidate reported last
C15_Witness ==
    /\ Len(ys) = 3
    /\ Cardinality(it.all_x) = 3
    /\ it.best.x # None
    /\ it.best.x # it.last_x

\* C16: for every step size and any reported results the current
\* start never decreases and the current stop never increases across an
\* update, and original start <= current start and current stop <=
\* original stop - 1 in every reachable state.
C16_BoundsShrink ==
    /\ [][Constructed /\ Constructed'
            => it.start <= it'.start /\ it'.stop <= it.stop]_vars
    /\ [](Constructed => args.start <= it.start /\ it.stop <= args.stop - 1)

\* this step is the report of the result res for the pending candidate,
\* the comparator answering c when it is asked
ReportOf(res, c) ==
    /\ pc = "pending"
    /\ (it.smallerf # "any" => c)
    /\ ys' = Append(ys, res)
    /\ it' = local_minimum_update(it, res, c)

\* the result res, reported now, improves best-so-far
Improves(res, c) == update_better(it, res, c)

\* the candidate about to be proposed after this step: the midpoint m
\* unless it is the candidate just reported
NextOrStop(m) == IF Some(m) = it.last_x THEN None ELSE Some(m)

\* C17 as stated: when a reported result improves best-so-far and its
\* candidate was a long jump (a bisection-mode candidate or the very first
\* probe at stop - 1), the next state has direction probe-down and the next
\* candidate is that candidate minus the step size.
C17_LongJump_Original ==
    [][\A res \in Results, c \in BOOLEAN :
          ReportOf(res, c) /\ Improves(res, c)
              /\ (abs(it.direction) = 2 \/ ys = <<>>)
          => /\ it'.direction = -1
             /\ it'.next_x = Some(Get(it.last_x) - it.test_step_size)]_vars

\* C17 (amended): when a reported result improves best-so-far and its
\* candidate was a bisection-mode candidate, the next state has direction
\* probe-down and the next candidate is that candidate minus the step size;
\* an improving first probe at stop - 1 is a probe-down step and switches
\* to bisect-down, with the midpoint of start and stop - 1 as next
\* candidate.
C17_LongJump ==
    [][\A res \in Results, c \in BOOLEAN :
          ReportOf(res, c) /\ Improves(res, c)
          => /\ (abs(it.direction) = 2
                    => /\ it'.direction = -1
                       /\ it'.next_x = Some(Get(it.last_x) - it.test_step_size))
             /\ (ys = <<>>
                    => /\ it.direction = -1
                       /\ it'.direction = -2
                       /\ it'.stop = args.stop - 1
                       /\ it'.next_x = NextOrStop(ceil2(args.start + args.stop - 1)))]_vars

\* an improvement at a bisection-mode candidate has just been reported,
\* with a step size above one
C17_Witness ==
    /\ pc = "ready"
    /\ Len(ys) >= 2
    /\ it.direction = -1
    /\ it.test_step_size > 1
    /\ it.best.x = it.last_x
    /\ it.next_x = Some(Get(it.last_x) - it.test_step_size)

\* C18 as stated: when a unit-step probe (probe-down, symmetrically
\* probe-up) improves best-so-far, the search continues with one more unit
\* step in that direction, and does not yet switch to bisection mode.
C18_UnitStep_Original ==
    [][\A res \in Results, c \in BOOLEAN :
          ReportOf(res, c) /\ Improves(res, c) /\ abs(it.direction) = 1
              /\ ys # <<>>
          => /\ it'.direction = it.direction
             /\ it'.next_x =
                   Some(Get(it.last_x) + it.direction * it.test_step_size)]_vars

\* C18 (amended): when a unit-step probe improves best-so-far, the search
\* switches to bisection mode in that direction at once: after probe-down
\* the current stop is the candidate and the next candidate is the midpoint
\* of start and the candidate rounded up, after probe-up the current start
\* is the candidate and the next candidate is the midpoint of the candidate
\* and stop rounded down; a midpoint equal to the candidate ends the
\* search.
C18_UnitStep ==
    [][\A res \in Results, c \in BOOLEAN :
          ReportOf(res, c) /\ Improves(res, c) /\ abs(it.direction) = 1
          => /\ it'.direction = 2 * it.direction
             /\ it'.best = [x |-> it.last_x, y |-> Some(res)]
             /\ (it.direction = -1
                    => /\ it'.stop = Get(it.last_x)
                       /\ it'.start = it.start
                       /\ it'.next_x = NextOrStop(ceil2(it.start + Get(it.last_x))))
             /\ (it.direction = 1
                    => /\ it'.start = Get(it.last_x)
                       /\ it'.stop = it.stop
                       /\ it'.next_x = NextOrStop(floor2(Get(it.last_x) + it.stop)))]_vars

\* an improvement at a probe-up candidate has just been reported, and the
\* search goes on at a midpoint above it
C18_Witness ==
    /\ pc = "ready"
    /\ it.direction = 2
    /\ it.best.x = it.last_x
    /\ it.start = Get(it.last_x)
    /\ it.next_x # None
    /\ Get(it.next_x) > Get(it.last_x)

C20_InfeasibleNoImprovement ==
    [][\A c \in BOOLEAN :
          ReportOf(Infeasible, c)
          => /\ it'.best = it.best
             /\ it' = update_repeat(update_not_improved(
                         [it EXCEPT !.all_x = @ \cup it.last_x]))]_vars

\* the points of the radius-step window around p, clipped to [start, stop)
Window21(p) ==
    {c \in call.start..(call.stop - 1) : abs(c - p) <= call.step}

\* the points f was invoked on after the coarse search
FinePoints == {calls[i] : i \in (Len(ys) + 1)..Len(calls)}

\* C21: when binary_search_robust has run its coarse search and found the
\* coarse optimum p, it evaluates f at every integer c with |c - p| <= step
\* and start <= c < stop, and returns the minimum of exactly those
\* evaluations.
C21_FineWindow ==
    call.fn = "binary_search_robust" /\ robust_coarse(call) /\ pc = "done"
        => /\ FinePoints = Window21(Get(rb.p))
           /\ ret = Some(Feasible(MinOver(f, Max(call.start, Get(rb.p) - call.step),
                                           Min(call.stop - 1, Get(rb.p) + call.step))))

\* C22: for start < stop and stop - start <= step, binary_search_robust
\* raises no error, runs no coarse search, evaluates f first at the
\* midpoint of [start, stop) and then on the window around it, and every
\* point it passes to f lies in [start, stop).
C22_DegenerateRange ==
    call.fn = "binary_search_robust" /\ NonEmpty /\ ~robust_coarse(call)
        => /\ pc # "error"
           /\ xs = <<>>
           /\ \A i \in 1..Len(calls) :
                 call.start <= calls[i] /\ calls[i] < call.stop
           /\ (calls # <<>> => calls[1] = (call.start + call.stop) \div 2)

\* C23: with the strict comparator smallerf(x, best) = (x < best), a
\* local_minimum(start, stop) driven to exhaustion over a strictly unimodal
\* cost function on at least two candidates evaluates more than the first
\* probe and ends with best-so-far equal to the minimum of f.
C23_StrictComparator ==
    /\ call.fn = "local_minimum"
    /\ call.smallerf = "lt"
    /\ call.stop - call.start >= 2
    /\ StrictlyUnimodal(f, call.start, call.stop - 1)
    /\ pc = "done"
    => /\ Len(calls) > 1
       /\ it.best.y = Some(Feasible(MinOver(f, call.start, call.stop - 1)))

\* C26: local_minimum(start, stop) with stop = start raises no error,
\* produces no candidate on its first __next__, has best candidate and
\* best result None after exhaustion, and logs no boundary advisory.
C26_EmptyInterval ==
    args.stop = args.start
        => /\ pc \in {"new", "ready", "done"}
           /\ err = "none"
           /\ xs = <<>>
           /\ ~warned
           /\ (pc # "new" => it.best = [x |-> None, y |-> None])
           /\ (pc = "ready" => next_abort(it))

\* the search over an empty interval is exhausted, with the boundary
\* advisory not suppressed
C26_Witness ==
    /\ pc = "done"
    /\ args.stop = args.start
    /\ ~args.suppress_bounds_warning
    /\ xs = <<>>
    /\ it.best.x = None

\* ------------------------------------------------------------- CodedBKW
\* bounds of the LWE parameters of a coded_bkw call
MaxN == 3
MaxQ == 9
MaxSamples == 3

\* ceil(log(q, 2)) for an integer q >= 1
RECURSIVE ceil_log2(_)
ceil_log2(q) == IF q <= 1 THEN 0 ELSE 1 + ceil_log2(ceil2(q))

\* the named parameters of binary_search; every other keyword of a call
\* goes to its **kwds
binary_search_params == {"f", "start", "stop", "param", "smallerf", "log_level"}

\* the parameters of kernel(b=2, log_level=log_level), which has no **kwds
kernel_params == {"b", "log_level"}

\* the keywords CodedBKW.b passes to the outer binary_search, after the
\* positional f, start, stop, param
outer_keywords == {"predicate", "log_level"}

\* the keywords CodedBKW.b's kernel passes to the inner binary_search
inner_keywords == {"params", "predicate", "b", "ntest", "log_level"}

\* smallerf of a binary_search call: the keyword smallerf when it is
\* given, else the default "lambda x, best: x <= best"
binary_search_smallerf(keywords) ==
    IF "smallerf" \in keywords THEN "predicate" ELSE "le"

\* "kwds_ = dict(kwds); kwds_[param] = x": the keywords f is called with
binary_search_kwds(keywords, param) ==
    (keywords \ binary_search_params) \cup {param}

\* calling a function without **kwds with a keyword that is none of its
\* parameters raises TypeError
call_raises(params, keywords) == ~(keywords \subseteq params)

\* "3 * ceil(log(params.q, 2))", the stop of the outer search
outer_stop(c) == 3 * ceil_log2(c.q)

\* the local_minimum of the outer binary_search of CodedBKW.b
outer_args(c) ==
    [start |-> 2,
     stop |-> outer_stop(c) + 1,
     smallerf |-> binary_search_smallerf(outer_keywords),
     suppress_bounds_warning |-> FALSE,
     test_step_size |-> 1]

\* the coded_bkw calls: LWE parameters with dimension n, modulus q and m
\* samples
CodedBKWCalls ==
    {[fn |-> "coded_bkw", n |-> n, q |-> q, m |-> m] :
        n \in 1..MaxN, q \in 2..MaxQ, m \in 1..MaxSamples}

InitK ==
    /\ pc = "call"
    /\ call \in CodedBKWCalls
    /\ f = <<>>
    /\ calls = <<>>
    /\ ret = None
    /\ rb = NoLocals
    /\ args = NoArgs
    /\ it = NoInstance
    /\ xs = <<>>
    /\ ys = <<>>
    /\ warned = FALSE
    /\ err = "none"
    /\ NoBatch

\* __call__ up to "cost = self.b(params, ...)": b is entered
CallB ==
    /\ pc = "call"
    /\ pc' = "b"
    /\ UNCHANGED <<args, it, xs, ys, warned, err>>
    /\ UNCHANGED driverVars
    /\ UNCHANGED batchVars

\* b: "best = binary_search(kernel, 2, 3 * ceil(log(params.q, 2)), "b",
\* predicate=predicate, log_level=log_level)" enters its local_minimum
OuterEnter ==
    /\ pc = "b"
    /\ ~init_raises(outer_args(call))
    /\ args' = outer_args(call)
    /\ it' = local_minimum_init(outer_args(call))
    /\ pc' = "outer"
    /\ UNCHANGED <<xs, ys, warned, err>>
    /\ UNCHANGED driverVars
    /\ UNCHANGED batchVars

\* the outer search: "for x in it" returns its first candidate
OuterPropose ==
    /\ pc = "outer"
    /\ ~next_abort(it)
    /\ it' = next_advance(it)
    /\ xs' = Append(xs, Get(it.next_x))
    /\ pc' = "kernel"
    /\ UNCHANGED <<args, ys, warned, err>>
    /\ UNCHANGED driverVars
    /\ UNCHANGED batchVars

\* the outer search: "f(*args, **kwds_)" calls kernel with the keywords
\* binary_search forwards; kernel does not take the keyword predicate, the
\* call raises TypeError and nothing in binary_search or b catches it
KernelRaises ==
    /\ pc = "kernel"
    /\ call_raises(kernel_params, binary_search_kwds(outer_keywords, "b"))
    /\ calls' = Append(calls, [x |-> Get(it.last_x),
                               keywords |-> binary_search_kwds(outer_keywords, "b")])
    /\ err' = "TypeError"
    /\ pc' = "raised"
    /\ UNCHANGED <<args, it, xs, ys, warned, call, f, ret, rb>>
    /\ UNCHANGED batchVars

\* __call__: "except InsufficientSamplesError" does not match the error
\* of b, which leaves the call; the handlers of that error and their
\* "while True" loop run only on an InsufficientSamplesError of b, which
\* no search of b gets as far as raising
ErrorEscapes ==
    /\ pc = "raised"
    /\ err # "InsufficientSamplesError"
    /\ pc' = "error"
    /\ UNCHANGED <<args, it, xs, ys, warned, err>>
    /\ UNCHANGED driverVars
    /\ UNCHANGED batchVars

NextK == CallB \/ OuterEnter \/ OuterPropose \/ KernelRaises \/ ErrorEscapes

SpecK == InitK /\ [][NextK]_vars

\* C25: the searches of CodedBKW.b decide improvement with the sample-aware
\* predicate: the predicate is the comparator of the search and is not
\* among the keywords forwarded to the function the search evaluates.
C25_PredicateIsComparator ==
    call.fn = "coded_bkw" =>
        /\ (Constructed => it.smallerf = "predicate")
        /\ \A i \in 1..Len(calls) : "predicate" \notin calls[i].keywords
        /\ binary_search_smallerf(inner_keywords) = "predicate"
        /\ "predicate" \notin binary_search_kwds(inner_keywords, "t2")

====
